---- MODULE Spec2Model ----
(***************************************************************************)
(* World Globe Explorer (src/app.py): the Dash callbacks as a state        *)
(* machine over the component properties they read and write, and the      *)
(* helper functions (pop_bar, hex_rgba, build_figure, build_attraction_    *)
(* chart, city_to_csv) as operators.                                       *)
(*                                                                         *)
(* Text is a sequence of one-character strings.  A Python value that may   *)
(* be None, a str or a dict is a record with a "type" field.  A call that  *)
(* may raise is a record [ok |-> TRUE, val |-> v] or [ok |-> FALSE,        *)
(* err |-> e].  Floating-point values are exact rationals, kept as an      *)
(* integer numerator over a fixed denominator.                             *)
(***************************************************************************)
EXTENDS Integers, Sequences, FiniteSets, TLC

VARIABLES
    view_store,        \* dcc.Store "view-store".data
    btn_globe,         \* "btn-globe".className
    btn_map,           \* "btn-map".className
    continent_filter,  \* "continent-filter".value
    figure,            \* "globe".figure
    city_store,        \* dcc.Store "city-store".data
    city_modal,        \* "city-modal".className
    modal_body,        \* "modal-body".children
    download_city,     \* "download-city-csv".data
    download_all,      \* "download-all-csv".data
    export_city_n,     \* "export-city-btn".n_clicks
    export_all_n,      \* "export-all-btn".n_clicks
    last_event,        \* the event handled last, with its input and any error raised
    fn,                \* helper function under test ("none" in the callback machine)
    arg,               \* its arguments
    res                \* its result (Pending until it is applied)

uivars == <<view_store, btn_globe, btn_map, continent_filter, figure, city_store,
            city_modal, modal_body, download_city, download_all, export_city_n,
            export_all_n, last_event>>
fnvars == <<fn, arg, res>>
vars == <<view_store, btn_globe, btn_map, continent_filter, figure, city_store,
          city_modal, modal_body, download_city, download_all, export_city_n,
          export_all_n, last_event, fn, arg, res>>

---------------------------------------------------------------------------
(* Bounds of the model *)

MaxClicks == 2        \* n_clicks of each export button stays within 0..MaxClicks
MaxWidth == 15        \* pop_bar is applied to the widths 0..MaxWidth
MaxHexLen == 8        \* hex_rgba is applied to the strings of at most MaxHexLen characters
MaxAttractions == 6   \* build_attraction_chart is applied to 1..MaxAttractions attractions
MaxCities == 2        \* build_figure is applied to the datasets of at most MaxCities cities
MaxFmtSteps == 60     \* fmt_pop is applied around the first MaxFmtSteps multiples of 500 and 50_000

---------------------------------------------------------------------------
(* Python values *)

None == [type |-> "none"]
NoUpdate == [type |-> "no_update"]
Pending == [type |-> "pending"]

Ok(v) == [ok |-> TRUE, val |-> v]
Raise(e) == [ok |-> FALSE, err |-> e]

Max2(a, b) == IF a >= b THEN a ELSE b
Min2(a, b) == IF a <= b THEN a ELSE b

Range(s) == {s[i] : i \in 1..Len(s)}

\* s[:n]
Take(s, n) == SubSeq(s, 1, Min2(n, Len(s)))

\* "".join(ss), from the i-th part on
RECURSIVE ConcatFrom(_, _)
ConcatFrom(ss, i) == IF i > Len(ss) THEN <<>> ELSE ss[i] \o ConcatFrom(ss, i + 1)
Concat(ss) == ConcatFrom(ss, 1)

\* sep.join(parts), from the i-th part on
RECURSIVE JoinFrom(_, _, _)
JoinFrom(sep, parts, i) ==
    IF i > Len(parts) THEN <<>>
    ELSE IF i = Len(parts) THEN parts[i]
    ELSE parts[i] \o sep \o JoinFrom(sep, parts, i + 1)
Join(sep, parts) == JoinFrom(sep, parts, 1)

\* c * n
Repeat(c, n) == [i \in 1..Max2(n, 0) |-> c]

UpperChars == <<"A","B","C","D","E","F","G","H","I","J","K","L","M",
                "N","O","P","Q","R","S","T","U","V","W","X","Y","Z">>
LowerChars == <<"a","b","c","d","e","f","g","h","i","j","k","l","m",
                "n","o","p","q","r","s","t","u","v","w","x","y","z">>

\* str.lower(), on ASCII text
UpperSet == Range(UpperChars)
LowerChar(c) ==
    IF c \in UpperSet
    THEN LowerChars[CHOOSE i \in 1..Len(UpperChars) : UpperChars[i] = c]
    ELSE c
Lower(s) == [i \in 1..Len(s) |-> LowerChar(s[i])]

\* str.replace(old, new) for a one-character old
Replace(s, old, new) == [i \in 1..Len(s) |-> IF s[i] = old THEN new ELSE s[i]]

DigitChars == <<"0","1","2","3","4","5","6","7","8","9">>

\* str(n) of an int
RECURSIVE NatStr(_)
NatStr(n) == IF n < 10 THEN <<DigitChars[n + 1]>>
             ELSE NatStr(n \div 10) \o <<DigitChars[(n % 10) + 1]>>
IntStr(n) == IF n < 0 THEN <<"-">> \o NatStr(-n) ELSE NatStr(n)

\* str(x) of a float with one decimal, x given in tenths: -125 is -12.5
FloatStr(t) ==
    LET a == IF t < 0 THEN -t ELSE t
    IN (IF t < 0 THEN <<"-">> ELSE <<>>) \o NatStr(a \div 10) \o <<".">> \o NatStr(a % 10)

\* json.dumps(c): a non-empty str that holds the JSON document of c
json_dumps(c) == [type |-> "str", empty |-> FALSE, doc |-> <<c>>]

\* json.loads(s): the document s holds, JSONDecodeError when it holds none
json_loads(s) == IF s.doc = <<>> THEN Raise("JSONDecodeError") ELSE Ok(s.doc[1])

\* bool(v) of a None or a str
Truthy(v) == v.type = "str" /\ ~v.empty

---------------------------------------------------------------------------
(* data/cities_data.py: the static dataset and the continent style table.  *)
(* The file is not part of the sources at hand; the records below follow   *)
(* the CityRecord and ContinentStyle descriptions of the specification.    *)

All == <<"A","l","l">>
Asia == <<"A","s","i","a">>
Europe == <<"E","u","r","o","p","e">>
NorthAmerica == <<"N","o","r","t","h"," ","A","m","e","r","i","c","a">>
SouthAmerica == <<"S","o","u","t","h"," ","A","m","e","r","i","c","a">>
Africa == <<"A","f","r","i","c","a">>
Oceania == <<"O","c","e","a","n","i","a">>
Atlantis == <<"A","t","l","a","n","t","i","s">>   \* a continent the style table lacks

\* CONTINENT_COLORS, in its iteration order
CONTINENT_COLORS ==
    << [cont |-> Asia,         color |-> <<"#","f","f","6","b","6","b">>],
       [cont |-> Europe,       color |-> <<"#","4","e","c","d","c","4">>],
       [cont |-> NorthAmerica, color |-> <<"#","4","5","b","7","d","1">>],
       [cont |-> SouthAmerica, color |-> <<"#","9","6","c","e","b","4">>],
       [cont |-> Africa,       color |-> <<"#","f","f","e","a","a","7">>],
       [cont |-> Oceania,      color |-> <<"#","d","d","a","0","d","d">>] >>

Tokyo ==
    [name |-> <<"T","o","k","y","o">>, country |-> <<"J","a","p","a","n">>,
     continent |-> Asia, flag |-> <<"J","P">>, lat |-> 357, lon |-> 1397,
     population |-> 37400000, language |-> <<"J","a","p","a","n","e","s","e">>,
     currency |-> <<"Y","e","n">>, timezone |-> <<"J","S","T">>,
     founded |-> <<"1","4","5","7">>, description |-> <<"C","a","p","i","t","a","l">>,
     best_known_for |-> <<"S","u","s","h","i",","," ","a","n","i","m","e">>,
     top_attractions |-> << <<"S","e","n","s","o","-","j","i">>,
                            <<"S","h","i","b","u","y","a">> >>,
     fun_facts |-> << <<"B","u","s","y">> >>]

HongKong ==
    [name |-> <<"H","o","n","g"," ","K","o","n","g">>, country |-> <<"C","h","i","n","a">>,
     continent |-> Asia, flag |-> <<"H","K">>, lat |-> 223, lon |-> 1142,
     population |-> 7500000, language |-> <<"C","a","n","t","o","n","e","s","e">>,
     currency |-> <<"H","K","D">>, timezone |-> <<"H","K","T">>,
     founded |-> <<"1","8","4","2">>, description |-> <<"H","a","r","b","o","u","r">>,
     best_known_for |-> <<"S","k","y","l","i","n","e">>,
     top_attractions |-> << <<"V","i","c","t","o","r","i","a"," ","P","e","a","k">> >>]

Reykjavik ==
    [name |-> <<"R","e","y","k","j","a","v","i","k">>,
     country |-> <<"I","c","e","l","a","n","d">>,
     continent |-> Europe, flag |-> <<"I","S">>, lat |-> 641, lon |-> -219,
     population |-> 131000, language |-> <<"I","c","e","l","a","n","d","i","c">>,
     currency |-> <<"I","S","K">>, timezone |-> <<"G","M","T">>,
     description |-> <<"N","o","r","t","h">>,
     best_known_for |-> <<"G","e","y","s","e","r","s">>,
     top_attractions |-> << <<"H","a","l","l","g","r","i","m","s","k","i","r","k","j","a">> >>,
     fun_facts |-> <<>>]

\* CITIES_DATA, in its natural order
CITIES_DATA == <<Tokyo, Reykjavik, HongKong>>

---------------------------------------------------------------------------
(* Helpers *)

PopCeiling == 22000000

\* round(num / den) for num >= 0, den > 0: Python rounds a tie to the even integer
RoundHalfEven(num, den) ==
    LET q == num \div den
        r == num % den
    IN IF 2 * r < den THEN q
       ELSE IF 2 * r > den THEN q + 1
       ELSE IF q % 2 = 0 THEN q ELSE q + 1

\* floor(log2(m)) for m >= 1: the binary exponent of a float in [m, m + 1)
RECURSIVE Log2(_)
Log2(m) == IF m < 2 THEN 0 ELSE 1 + Log2(m \div 2)

\* 2^k mod 5
Pow2Mod5(k) == <<1, 2, 4, 3>>[(k % 4) + 1]

Million == 1000000
Thousand == 1000

\* n / 1_000_000 for n = 50_000 * p, p odd and no multiple of 5, is p / 20, which no
\* double equals: the quotient is the double nearest to it, 53 bits at the exponent
\* e of the quotient, and lies above p / 20 iff p * 2^(50 - e) mod 5 is 3 or 4;
\* the format then rounds the double, not p / 20
quotient_above(n) ==
    LET p == n \div (Million \div 20)
        e == Log2(n \div Million)
    IN ((p % 5) * Pow2Mod5(50 - e)) % 5 \in {3, 4}

\* f"{n / 1_000_000:.1f}": the tenths shown, for n >= 1_000_000
fmt_tenths_floor(n) == n \div (Million \div 10)
fmt_tenths(n) ==
    LET den == Million \div 10
        q == n \div den
        r == n % den
    IN IF 2 * r < den THEN q
       ELSE IF 2 * r > den THEN q + 1
       ELSE IF (2 * q + 1) % 5 = 0 THEN (IF q % 2 = 0 THEN q ELSE q + 1)
       ELSE IF quotient_above(n) THEN q + 1 ELSE q

\* fmt_pop(n), for n >= 0
fmt_pop(n) ==
    IF n >= Million
    THEN LET t == fmt_tenths(n)
         IN NatStr(t \div 10) \o <<".">> \o NatStr(t % 10) \o <<"M">>
    ELSE IF n >= Thousand
    THEN NatStr(RoundHalfEven(n, Thousand)) \o <<"K">>
    ELSE NatStr(n)

FilledGlyph == "#"
EmptyGlyph == "."

\* filled = max(1, min(width, round(n / 22_000_000 * width)))
pop_bar_filled_nofloor(n, width) == Min2(width, RoundHalfEven(n * width, PopCeiling))
pop_bar_filled(n, width) == Max2(1, Min2(width, RoundHalfEven(n * width, PopCeiling)))

\* pop_bar(n, width): FilledGlyph stands for the full block, EmptyGlyph for the light shade
pop_bar(n, width) ==
    Repeat(FilledGlyph, pop_bar_filled(n, width))
        \o Repeat(EmptyGlyph, width - pop_bar_filled(n, width))

HexDigits == <<"0","1","2","3","4","5","6","7","8","9","a","b","c","d","e","f">>
HexDigitSet == Range(HexDigits)
IsHexDigit(c) == LowerChar(c) \in HexDigitSet
HexVal(c) == LET d == LowerChar(c) IN (CHOOSE i \in 1..16 : HexDigits[i] = d) - 1

\* int(s, 16) of a slice of at most two characters out of digits, letters and '#'
int16(s) ==
    IF s = <<>> \/ \E i \in 1..Len(s) : ~IsHexDigit(s[i]) THEN Raise("ValueError")
    ELSE IF Len(s) = 1 THEN Ok(HexVal(s[1]))
    ELSE Ok(16 * HexVal(s[1]) + HexVal(s[2]))

\* str.lstrip("#"): every leading '#' goes
RECURSIVE lstrip_hash(_)
lstrip_hash(s) == IF s # <<>> /\ Head(s) = "#" THEN lstrip_hash(Tail(s)) ELSE s

\* s[a:b] with 0 <= a <= b, clipped to the string as Python clips it
Slice(s, a, b) == SubSeq(s, a + 1, Min2(b, Len(s)))

\* str(opacity) of a float opacity given in hundredths, 0..100
OpacityStr(h) ==
    IF h >= 100 THEN <<"1", ".", "0">>
    ELSE IF h % 10 = 0 THEN <<"0", ".", DigitChars[(h \div 10) + 1]>>
    ELSE <<"0", ".", DigitChars[(h \div 10) + 1], DigitChars[(h % 10) + 1]>>

RgbaText(r, g, b, opacity) ==
    <<"r","g","b","a","(">> \o IntStr(r) \o <<",">> \o IntStr(g) \o <<",">>
        \o IntStr(b) \o <<",">> \o OpacityStr(opacity) \o <<")">>

hex_rgba(hex_color, opacity) ==
    LET h == lstrip_hash(hex_color)
        r == int16(Slice(h, 0, 2))
        g == int16(Slice(h, 2, 4))
        b == int16(Slice(h, 4, 6))
    IN IF ~r.ok THEN r
       ELSE IF ~g.ok THEN g
       ELSE IF ~b.ok THEN b
       ELSE Ok(RgbaText(r.val, g.val, b.val, opacity))

---------------------------------------------------------------------------
(* Globe figure *)

MinSize == 9
MaxSize == 24
ScaleDivisor == 850000
SizeDen == ScaleDivisor * 10     \* a marker size is a numerator over SizeDen
DefaultBarWidth == 14
HoverCap == 65

\* max(9, min(24, population / 850_000 * 2.3)), as a numerator over SizeDen
marker_size_unclamped(population) == population * 23
marker_size(population) ==
    Max2(MinSize * SizeDen, Min2(MaxSize * SizeDen, population * 23))

\* the hover descriptor of one city
hover_text(c, color) ==
    [color |-> color, flag |-> c.flag, name |-> c.name, country |-> c.country,
     continent |-> c.continent, bar |-> pop_bar(c.population, DefaultBarWidth),
     population |-> fmt_pop(c.population),
     famous |-> Take(c.best_known_for, HoverCap),
     attraction |-> c.top_attractions[1]]

\* the trace build_figure adds for one entry of the style table: none for an empty group
continent_trace(entry, cities) ==
    LET grp == SelectSeq(cities, LAMBDA c : c.continent = entry.cont)
    IN IF grp = <<>> THEN <<>>
       ELSE << [name       |-> entry.cont,
                color      |-> entry.color,
                lat        |-> [i \in 1..Len(grp) |-> grp[i].lat],
                lon        |-> [i \in 1..Len(grp) |-> grp[i].lon],
                size       |-> [i \in 1..Len(grp) |-> marker_size(grp[i].population)],
                hovertext  |-> [i \in 1..Len(grp) |-> hover_text(grp[i], entry.color)],
                customdata |-> [i \in 1..Len(grp) |-> json_dumps(grp[i])]] >>

\* for cont, color in CONTINENT_COLORS.items(): ...
RECURSIVE figure_traces(_, _)
figure_traces(colors, cities) ==
    IF colors = <<>> THEN <<>>
    ELSE continent_trace(Head(colors), cities) \o figure_traces(Tail(colors), cities)

\* the cities build_figure keeps: a filter other than "All" keeps its continent
filter_cities(continent, data) ==
    IF continent = All THEN data
    ELSE SelectSeq(data, LAMBDA c : c.continent = continent)

\* build_figure over a given dataset and style table
build_figure_on(view_mode, continent, data, colors) ==
    [data       |-> figure_traces(colors, filter_cities(continent, data)),
     projection |-> IF view_mode = "globe" THEN "orthographic" ELSE "natural earth",
     uirevision |-> view_mode]

build_figure(view_mode, continent) ==
    build_figure_on(view_mode, continent, CITIES_DATA, CONTINENT_COLORS)

---------------------------------------------------------------------------
(* Modal charts *)

DefaultColor == <<"#","0","0","d","2","f","f">>
LabelCap == 22
Ellipsis == "~"      \* stands for the one-character horizontal ellipsis
Scores == <<95, 88, 80, 73, 65>>
Opacities == <<95, 82, 70, 58, 46>>     \* in hundredths

\* CONTINENT_COLORS.get(continent, "#00d2ff")
continent_color(continent, colors) ==
    IF \E i \in 1..Len(colors) : colors[i].cont = continent
    THEN colors[CHOOSE i \in 1..Len(colors) : colors[i].cont = continent].color
    ELSE DefaultColor

\* a[:22] + "..." if len(a) > 22 else a
short_label(a) == IF Len(a) > LabelCap THEN Take(a, LabelCap) \o <<Ellipsis>> ELSE a

\* the labels of the bars: one per attraction
chart_labels(attrs) == [i \in 1..Len(attrs) |-> short_label(attrs[i])]

\* build_attraction_chart over a given style table: the bar trace, or hex_rgba's error
build_attraction_chart_on(city, colors) ==
    LET color == continent_color(city.continent, colors)
        attrs == city.top_attractions
        scores == Take(Scores, Len(attrs))
        opacities == Take(Opacities, Len(attrs))
        bar_colors == [i \in 1..Len(opacities) |-> hex_rgba(color, opacities[i])]
    IN IF \E i \in 1..Len(bar_colors) : ~bar_colors[i].ok
       THEN bar_colors[CHOOSE i \in 1..Len(bar_colors) :
                          /\ ~bar_colors[i].ok
                          /\ \A j \in 1..(i - 1) : bar_colors[j].ok]
       ELSE Ok([x |-> chart_labels(attrs),
                y |-> scores,
                marker_color |-> [i \in 1..Len(bar_colors) |-> bar_colors[i].val],
                text |-> [i \in 1..Len(scores) |-> IntStr(scores[i])]])

build_attraction_chart(city) == build_attraction_chart_on(city, CONTINENT_COLORS)

---------------------------------------------------------------------------
(* CSV helpers: csv.writer with its default (excel) dialect *)

Comma == ","
Quote == "\""
CR == "\r"
LF == "\n"

\* QUOTE_MINIMAL: a field is quoted when it holds the delimiter, the quote
\* character or a character of the line terminator
needs_quotes(field) == \E i \in 1..Len(field) : field[i] \in {Comma, Quote, CR, LF}

\* doublequote: each quote character of a quoted field is written twice
RECURSIVE double_quotes(_)
double_quotes(field) ==
    IF field = <<>> THEN <<>>
    ELSE (IF Head(field) = Quote THEN <<Quote, Quote>> ELSE <<Head(field)>>)
             \o double_quotes(Tail(field))

csv_field_unquoted(field) == field
csv_field(field) ==
    IF needs_quotes(field) THEN <<Quote>> \o double_quotes(field) \o <<Quote>> ELSE field

\* writer.writerow(fields), for a row of two fields or more
csv_row(fields) ==
    Join(<<Comma>>, [i \in 1..Len(fields) |-> csv_field(fields[i])]) \o <<CR, LF>>

Unknown == <<"U","n","k","n","o","w","n">>

\* city.get("founded", "Unknown")
founded_or(city, default) == IF "founded" \in DOMAIN city THEN city.founded ELSE default

\* city.get("fun_facts", [])
fun_facts_of(city) == IF "fun_facts" \in DOMAIN city THEN city.fun_facts ELSE <<>>

ListSep == <<" ", "|", " ">>

\* the (Field, Value) rows of city_to_csv, values converted as the writer converts them
city_rows(city) ==
    << <<<<"F","i","e","l","d">>, <<"V","a","l","u","e">>>>,
       <<<<"C","i","t","y">>, city.name>>,
       <<<<"C","o","u","n","t","r","y">>, city.country>>,
       <<<<"C","o","n","t","i","n","e","n","t">>, city.continent>>,
       <<<<"P","o","p","u","l","a","t","i","o","n">>, IntStr(city.population)>>,
       <<<<"L","a","t","i","t","u","d","e">>, FloatStr(city.lat)>>,
       <<<<"L","o","n","g","i","t","u","d","e">>, FloatStr(city.lon)>>,
       <<<<"L","a","n","g","u","a","g","e">>, city.language>>,
       <<<<"C","u","r","r","e","n","c","y">>, city.currency>>,
       <<<<"T","i","m","e","z","o","n","e">>, city.timezone>>,
       <<<<"F","o","u","n","d","e","d">>, founded_or(city, Unknown)>>,
       <<<<"F","a","m","o","u","s"," ","F","o","r">>, city.best_known_for>>,
       <<<<"T","o","p"," ","A","t","t","r","a","c","t","i","o","n","s">>, Join(ListSep, city.top_attractions)>>,
       <<<<"F","u","n"," ","F","a","c","t","s">>, Join(ListSep, fun_facts_of(city))>> >>

city_to_csv(city) ==
    LET rows == city_rows(city)
    IN Concat([i \in 1..Len(rows) |-> csv_row(rows[i])])

all_cities_header ==
    <<<<"C","i","t","y">>, <<"C","o","u","n","t","r","y">>, <<"C","o","n","t","i","n","e","n","t">>, <<"P","o","p","u","l","a","t","i","o","n">>,
      <<"L","a","t","i","t","u","d","e">>, <<"L","o","n","g","i","t","u","d","e">>, <<"L","a","n","g","u","a","g","e">>, <<"C","u","r","r","e","n","c","y">>,
      <<"T","i","m","e","z","o","n","e">>, <<"F","o","u","n","d","e","d">>, <<"F","a","m","o","u","s"," ","F","o","r">>>>

all_cities_row(c) ==
    <<c.name, c.country, c.continent, IntStr(c.population), FloatStr(c.lat),
      FloatStr(c.lon), c.language, c.currency, c.timezone, founded_or(c, Unknown),
      c.best_known_for>>

all_cities_csv ==
    csv_row(all_cities_header)
        \o Concat([i \in 1..Len(CITIES_DATA) |-> csv_row(all_cities_row(CITIES_DATA[i]))])

---------------------------------------------------------------------------
(* UI building blocks *)

RequiredKeys == {"continent", "population", "flag", "name", "country", "description",
                 "best_known_for", "language", "currency", "timezone", "top_attractions"}

EmptyDiv == [type |-> "div", children |-> <<>>]

\* build_modal_body(city): the hero, the population bar, the Founded chip, the
\* attraction chart, the attraction list and the fun-fact section of the body;
\* KeyError when the record lacks a key the body reads
build_modal_body(city) ==
    IF ~(RequiredKeys \subseteq DOMAIN city) THEN Raise("KeyError")
    ELSE LET chart == build_attraction_chart(city)
         IN IF ~chart.ok THEN chart
            ELSE Ok([type |-> "div",
                     children |-> <<
                        [hero |-> <<city.flag, city.name, city.country, city.continent>>,
                         accent |-> continent_color(city.continent, CONTINENT_COLORS)],
                        [pop_pct |-> IF city.population >= PopCeiling THEN 100
                                     ELSE RoundHalfEven(city.population, PopCeiling \div 100)],
                        [founded |-> founded_or(city, <<"A","n","c","i","e","n","t">>)],
                        [attraction_chart |-> chart.val],
                        [attractions |-> city.top_attractions],
                        [fun_facts |-> fun_facts_of(city)] >>])

---------------------------------------------------------------------------
(* Layout *)

\* the values of CONTINENT_FILTER_OPTIONS
CONTINENT_FILTER_OPTIONS ==
    <<All, Asia, Europe, NorthAmerica, SouthAmerica, Africa, Oceania>>

NoUpdateStr == "no_update"    \* no_update, for an output that holds a class name

---------------------------------------------------------------------------
(* Callbacks, as the functions app.callback registers *)

\* switch_view: <<view-store.data, btn-globe.className, btn-map.className>>
switch_view_same_classes(triggered_id) ==
    IF triggered_id = "btn-globe" THEN <<"globe", "view-btn active", "view-btn">>
    ELSE <<"flat", "view-btn active", "view-btn">>
switch_view(triggered_id) ==
    IF triggered_id = "btn-globe" THEN <<"globe", "view-btn active", "view-btn">>
    ELSE <<"flat", "view-btn", "view-btn active">>

\* refresh_globe: view or "globe", continent or "All"
refresh_globe(view, continent) ==
    build_figure(IF view = "" THEN "globe" ELSE view,
                 IF continent = <<>> THEN All ELSE continent)

\* click_data.get("points", [])
points_of(click_data) ==
    IF "points" \in DOMAIN click_data.items THEN click_data.items.points ELSE <<>>

\* bool(click_data): None and the empty dict are falsy
click_truthy(click_data) == click_data.type = "dict" /\ DOMAIN click_data.items # {}

\* handle_click: <<city-store.data, city-modal.className>>
handle_click_close_shows(triggered_id, click_data) ==
    IF triggered_id = "close-modal-btn" THEN <<NoUpdate, "modal-overlay visible">>
    ELSE IF /\ triggered_id = "globe"
            /\ click_truthy(click_data)
            /\ points_of(click_data) # <<>>
            /\ "customdata" \in DOMAIN points_of(click_data)[1]
         THEN <<points_of(click_data)[1].customdata, "modal-overlay visible">>
    ELSE <<NoUpdate, NoUpdateStr>>
handle_click_close_clears(triggered_id, click_data) ==
    IF triggered_id = "close-modal-btn" THEN <<None, "modal-overlay hidden">>
    ELSE IF /\ triggered_id = "globe"
            /\ click_truthy(click_data)
            /\ points_of(click_data) # <<>>
            /\ "customdata" \in DOMAIN points_of(click_data)[1]
         THEN <<points_of(click_data)[1].customdata, "modal-overlay visible">>
    ELSE <<NoUpdate, NoUpdateStr>>
handle_click_keep_class(triggered_id, click_data) ==
    IF triggered_id = "close-modal-btn" THEN <<NoUpdate, NoUpdateStr>>
    ELSE IF /\ triggered_id = "globe"
            /\ click_truthy(click_data)
            /\ points_of(click_data) # <<>>
            /\ "customdata" \in DOMAIN points_of(click_data)[1]
         THEN <<points_of(click_data)[1].customdata, "modal-overlay visible">>
    ELSE <<NoUpdate, NoUpdateStr>>
handle_click(triggered_id, click_data) ==
    IF triggered_id = "close-modal-btn" THEN <<NoUpdate, "modal-overlay hidden">>
    ELSE IF /\ triggered_id = "globe"
            /\ click_truthy(click_data)
            /\ points_of(click_data) # <<>>
            /\ "customdata" \in DOMAIN points_of(click_data)[1]
         THEN <<points_of(click_data)[1].customdata, "modal-overlay visible">>
    ELSE <<NoUpdate, NoUpdateStr>>

\* json.loads(city_json) if isinstance(city_json, str) else city_json
decode_city(city_json) ==
    IF city_json.type = "str" THEN json_loads(city_json) ELSE Ok(city_json)

\* update_modal: modal-body.children, or the error the callback raises
update_modal(city_json) ==
    LET city == decode_city(city_json)
    IN IF ~Truthy(city_json) THEN Ok(EmptyDiv)
       ELSE IF ~city.ok THEN city
       ELSE build_modal_body(city.val)

\* the keys export_city and city_to_csv read with city[...]
CsvKeys == {"name", "country", "continent", "population", "lat", "lon", "language",
            "currency", "timezone", "best_known_for", "top_attractions"}

Suffix == <<"_","d","a","t","a",".","c","s","v">>

\* city["name"].lower().replace(" ", "_") + "_data.csv"
export_filename_keep_spaces(city) == Lower(city.name) \o Suffix
export_filename(city) == Replace(Lower(city.name), " ", "_") \o Suffix

\* export_city: download-city-csv.data, or the error the callback raises
export_city(n, city_json) ==
    LET city == decode_city(city_json)
    IN IF n = 0 \/ ~Truthy(city_json) THEN Ok(NoUpdate)
       ELSE IF ~city.ok THEN city
       ELSE IF ~(CsvKeys \subseteq DOMAIN city.val) THEN Raise("KeyError")
       ELSE Ok([type |-> "dict",
                content |-> city_to_csv(city.val),
                filename |-> export_filename(city.val)])

\* export_all: download-all-csv.data
export_all(n) ==
    IF n = 0 THEN NoUpdate
    ELSE [type |-> "dict", content |-> all_cities_csv,
          filename |-> <<"w","o","r","l","d","_","c","i","t","i","e","s","_","d","a","t","a",".","c","s","v">>]

\* what a callback's return value makes of the property it is wired to
Updated(old, out) == IF out = NoUpdate THEN old ELSE out
UpdatedStr(old, out) == IF out = NoUpdateStr THEN old ELSE out

---------------------------------------------------------------------------
(* The callback machine: one action per user event, with the callbacks the *)
(* event sets off.                                                         *)

NoCall == fn = "none" /\ arg = None /\ res = None

InitUI ==
    /\ view_store = "globe"
    /\ btn_globe = "view-btn active"
    /\ btn_map = "view-btn"
    /\ continent_filter = All
    /\ figure = build_figure("globe", All)
    /\ city_store = None
    /\ city_modal = "modal-overlay hidden"
    /\ modal_body = None
    /\ download_city = None
    /\ download_all = None
    /\ export_city_n = 0
    /\ export_all_n = 0
    /\ last_event = [name |-> "load", input |-> None, error |-> "none", emitted |-> FALSE]

Init == InitUI /\ NoCall

\* a click on one of the two toggle buttons: switch_view, then refresh_globe
SwitchView(btn) ==
    /\ LET out == switch_view(btn)
       IN /\ view_store' = out[1]
          /\ btn_globe' = out[2]
          /\ btn_map' = out[3]
          /\ figure' = refresh_globe(out[1], continent_filter)
    /\ last_event' = [name |-> "switch_view", input |-> [type |-> "id", id |-> btn],
                      error |-> "none", emitted |-> FALSE]
    /\ UNCHANGED <<continent_filter, city_store, city_modal, modal_body, download_city,
                   download_all, export_city_n, export_all_n>>
    /\ UNCHANGED fnvars

\* another continent pill is chosen: refresh_globe
ChangeFilter(continent) ==
    /\ continent # continent_filter
    /\ continent_filter' = continent
    /\ figure' = refresh_globe(view_store, continent)
    /\ last_event' = [name |-> "change_filter", input |-> None, error |-> "none", emitted |-> FALSE]
    /\ UNCHANGED <<view_store, btn_globe, btn_map, city_store, city_modal, modal_body,
                   download_city, download_all, export_city_n, export_all_n>>
    /\ UNCHANGED fnvars

\* handle_click runs for triggered_id; update_modal follows when city-store is written
RunHandleClick(name, triggered_id, click_data) ==
    LET out == handle_click(triggered_id, click_data)
        written == out[1] # NoUpdate
        body == update_modal(Updated(city_store, out[1]))
    IN /\ city_store' = Updated(city_store, out[1])
       /\ city_modal' = UpdatedStr(city_modal, out[2])
       /\ modal_body' = IF written /\ body.ok THEN body.val ELSE modal_body
       /\ last_event' = [name |-> name,
                         input |-> click_data,
                         error |-> IF written /\ ~body.ok THEN body.err ELSE "none",
                         emitted |-> FALSE]
       /\ UNCHANGED <<view_store, btn_globe, btn_map, continent_filter, figure,
                      download_city, download_all, export_city_n, export_all_n>>
       /\ UNCHANGED fnvars

\* the clickData of a click on point i of trace t of the figure on show
PointClick(t, i) ==
    [type |-> "dict",
     items |-> [points |-> << [curveNumber |-> t - 1, pointNumber |-> i - 1,
                               lat |-> figure.data[t].lat[i],
                               lon |-> figure.data[t].lon[i],
                               customdata |-> figure.data[t].customdata[i]] >>]]

\* a click on a city marker of the globe
ClickPoint ==
    \E t \in 1..Len(figure.data) :
        \E i \in 1..Len(figure.data[t].customdata) :
            RunHandleClick("click_point", "globe", PointClick(t, i))

\* a click on "Back to Globe"
CloseModal == RunHandleClick("close", "close-modal-btn", None)

\* a click on "Export City CSV"
ExportCity ==
    /\ export_city_n < MaxClicks
    /\ export_city_n' = export_city_n + 1
    /\ LET out == export_city(export_city_n + 1, city_store)
       IN /\ download_city' = IF out.ok THEN Updated(download_city, out.val)
                              ELSE download_city
          /\ last_event' = [name |-> "export_city",
                            input |-> None,
                            error |-> IF out.ok THEN "none" ELSE out.err,
                            emitted |-> out.ok /\ out.val # NoUpdate]
    /\ UNCHANGED <<view_store, btn_globe, btn_map, continent_filter, figure, city_store,
                   city_modal, modal_body, download_all, export_all_n>>
    /\ UNCHANGED fnvars

\* a click on "Export All Cities"
ExportAll ==
    /\ export_all_n < MaxClicks
    /\ export_all_n' = export_all_n + 1
    /\ download_all' = Updated(download_all, export_all(export_all_n + 1))
    /\ last_event' = [name |-> "export_all", input |-> None, error |-> "none",
                      emitted |-> export_all(export_all_n + 1) # NoUpdate]
    /\ UNCHANGED <<view_store, btn_globe, btn_map, continent_filter, figure, city_store,
                   city_modal, modal_body, download_city, export_city_n>>
    /\ UNCHANGED fnvars

Next ==
    \/ \E btn \in {"btn-globe", "btn-map"} : SwitchView(btn)
    \/ \E k \in 1..Len(CONTINENT_FILTER_OPTIONS) : ChangeFilter(CONTINENT_FILTER_OPTIONS[k])
    \/ ClickPoint
    \/ CloseModal
    \/ ExportCity
    \/ ExportAll

Spec == Init /\ [][Next]_vars

---------------------------------------------------------------------------
(* The same machine, with clicks whose clickData no marker of the figure   *)
(* produces: a request to the callback endpoint may carry any JSON value.  *)

NotACity == [note |-> <<"x">>]

MalformedClicks ==
    << None,                                                          \* no click data
       [type |-> "dict", items |-> <<>>],                             \* {}
       [type |-> "dict", items |-> [points |-> <<>>]],                \* no points
       [type |-> "dict", items |-> [points |-> << [curveNumber |-> 0] >>]],
       [type |-> "dict", items |-> [points |-> << [customdata |-> None] >>]],
       [type |-> "dict",
        items |-> [points |-> << [customdata |-> [type |-> "str", empty |-> TRUE,
                                                   doc |-> <<>>]] >>]],
       [type |-> "dict",
        items |-> [points |-> << [customdata |-> [type |-> "str", empty |-> FALSE,
                                                   doc |-> <<>>]] >>]],
       [type |-> "dict",
        items |-> [points |-> << [customdata |-> json_dumps(NotACity)] >>]] >>

MalformedClick ==
    \E k \in 1..Len(MalformedClicks) :
        RunHandleClick("malformed_click", "globe", MalformedClicks[k])

NextMalformed == Next \/ MalformedClick

SpecMalformed == Init /\ [][NextMalformed]_vars

---------------------------------------------------------------------------
(* Claims about the callback machine *)

Visible == "modal-overlay visible"
Hidden == "modal-overlay hidden"

\* C1: whenever the detail panel is visible (city-modal has the class
\* 'modal-overlay visible'), a city is selected (city-store is not None).
C1_PanelVisibleImpliesCity == city_modal = Visible => city_store # None

\* C1 witness: a marker was clicked and the panel is on show.
C1_Witness == last_event.name = "click_point" /\ city_modal = Visible /\ city_store # None

\* the city of the dataset a clicked point stands for: the one at the point's coordinates
ClickedCities(pt) ==
    {k \in 1..Len(CITIES_DATA) : CITIES_DATA[k].lat = pt.lat /\ CITIES_DATA[k].lon = pt.lon}

\* C2: a click on a marker sets city-store to exactly the payload attached to the
\* clicked city and shows the panel; a close click that follows the click, with no
\* other click in between, leaves the panel hidden.
C2_SelectThenClose ==
    [][/\ last_event'.name = "click_point" =>
            /\ city_modal' = Visible
            /\ \E k \in ClickedCities(last_event'.input.items.points[1]) :
                  city_store' = json_dumps(CITIES_DATA[k])
       /\ (last_event.name = "click_point" /\ last_event'.name = "close") =>
            city_modal' = Hidden]_vars

\* C2 witness: the panel was closed after a city had been selected.
C2_Witness == last_event.name = "close" /\ city_store # None /\ city_modal = Hidden

\* C3: a map click with an invalid or malformed payload changes nothing of the view
\* state (city-store, the panel's class, the panel's content) and raises no error.
C3_MalformedClickIsNoOp ==
    [][last_event'.name = "malformed_click" =>
            /\ city_store' = city_store
            /\ city_modal' = city_modal
            /\ modal_body' = modal_body
            /\ last_event'.error = "none"]_vars

\* the file name the claim gives: the name in lower case, each space an underscore,
\* then "_data.csv"
C4_FileNameOk(fname, name) ==
    /\ Len(fname) = Len(name) + Len(Suffix)
    /\ \A i \in 1..Len(name) :
          fname[i] = IF name[i] = " " THEN "_" ELSE LowerChar(name[i])
    /\ \A i \in 1..Len(Suffix) : fname[Len(name) + i] = Suffix[i]

\* C4: an export request with no city selected emits no file and leaves the state as
\* it was; with a city selected it emits the CSV of that city under the file name
\* derived from the city's name.
C4_ExportCity ==
    [][last_event'.name = "export_city" =>
            /\ UNCHANGED <<view_store, continent_filter, city_store, city_modal,
                           modal_body, figure>>
            /\ last_event'.error = "none"
            /\ IF city_store = None
               THEN ~last_event'.emitted /\ download_city' = download_city
               ELSE /\ last_event'.emitted
                    /\ \E k \in 1..Len(CITIES_DATA) :
                          /\ city_store = json_dumps(CITIES_DATA[k])
                          /\ download_city'.content = city_to_csv(CITIES_DATA[k])
                          /\ C4_FileNameOk(download_city'.filename, CITIES_DATA[k].name)]_vars

\* C4 witness: the CSV of a city whose name holds a space has been emitted.
C4_Witness ==
    /\ last_event.name = "export_city"
    /\ last_event.emitted
    /\ city_store = json_dumps(HongKong)
    /\ download_city # None

\* the class of a toggle button that is the active one, and of one that is not
ActiveClass == "view-btn active"
PlainClass == "view-btn"

\* the mode a toggle button stands for
ModeOf(btn) == IF btn = "btn-globe" THEN "globe" ELSE "flat"

\* C12: view-store holds the mode of the toggle button clicked last, globe when
\* none was clicked (it is globe at the start, a click on a toggle button sets it
\* to the button's mode, no other event changes it), and exactly one of the two
\* buttons has the 'active' class: btn-globe in globe mode, btn-map in flat mode.
C12_ToggleButtons ==
    /\ view_store = "globe"
    /\ [](/\ view_store \in {"globe", "flat"}
          /\ {btn_globe, btn_map} = {ActiveClass, PlainClass}
          /\ (btn_globe = ActiveClass) = (view_store = "globe")
          /\ (btn_map = ActiveClass) = (view_store = "flat"))
    /\ [][IF last_event'.name = "switch_view"
          THEN view_store' = ModeOf(last_event'.input.id)
          ELSE view_store' = view_store]_vars

\* C12 witness: the flat map is on show; its button was clicked last, then a
\* continent was chosen.
C12_Witness ==
    /\ last_event.name = "change_filter"
    /\ view_store = "flat"
    /\ btn_map = ActiveClass
    /\ btn_globe = PlainClass

\* C13: a toggle click, a filter change and either export request leave city-store
\* and the panel's class as they were; a map click and a close click leave
\* view-store and the continent filter as they were; a close click leaves
\* city-store as it was, and city-store, once not None, is never None again.
C13_FrameEffects ==
    [][/\ last_event'.name \in {"switch_view", "change_filter", "export_city", "export_all"} =>
            /\ city_store' = city_store
            /\ city_modal' = city_modal
       /\ last_event'.name \in {"click_point", "close"} =>
            /\ view_store' = view_store
            /\ continent_filter' = continent_filter
       /\ last_event'.name = "close" => city_store' = city_store
       /\ city_store # None => city_store' # None]_vars

\* C13 witness: with a city on show in the flat map under a continent filter, all
\* cities were exported: the selection, the panel, the mode and the filter are kept.
C13_Witness ==
    /\ last_event.name = "export_all"
    /\ city_store # None
    /\ city_modal = Visible
    /\ view_store = "flat"
    /\ continent_filter # All

---------------------------------------------------------------------------
(* The helper functions on their own: the initial state draws the          *)
(* arguments, the one action applies the function.                         *)

Done(v) == [type |-> "done", val |-> v]

Call(name, args) == InitUI /\ fn = name /\ arg \in args /\ res = Pending

Apply(name, result) ==
    /\ fn = name
    /\ res = Pending
    /\ res' = Done(result)
    /\ UNCHANGED <<fn, arg>>
    /\ UNCHANGED uivars

\* pop_bar

PopSamples == {0, 1, 785714, 785715, 1000000, 5500000, 11000000, 21999999,
               22000000, 22000001, 37400000, 100000000}

InitPopBar == Call("pop_bar", [n : PopSamples, width : 0..MaxWidth])
ApplyPopBar == Apply("pop_bar", pop_bar(arg.n, arg.width))
SpecPopBar == InitPopBar /\ [][ApplyPopBar]_vars

\* fmt_pop

\* populations at and next to every multiple of 500 and of 50_000, and the
\* populations of large cities
FmtSamples ==
    ({k * 500 + d : k \in 0..MaxFmtSteps, d \in {-1, 0, 1}} \cap Nat)
    \cup {k * 50000 + d : k \in 1..MaxFmtSteps, d \in {-1, 0, 1}}
    \cup {999499, 999500, 999999, 22340000, 37400000, 104950000, 104950001}

InitFmtPop == Call("fmt_pop", [n : FmtSamples])
ApplyFmtPop == Apply("fmt_pop", fmt_pop(arg.n))
SpecFmtPop == InitFmtPop /\ [][ApplyFmtPop]_vars

\* hex_rgba

HexAlphabet == {"#", "a", "F", "g"}
HexInputs == UNION {[1..n -> HexAlphabet] : n \in 0..MaxHexLen}

InitHex == Call("hex_rgba", [hex : HexInputs, opacity : {70, 95}])
ApplyHex == Apply("hex_rgba", hex_rgba(arg.hex, arg.opacity))
SpecHex == InitHex /\ [][ApplyHex]_vars

\* build_figure

SamplePopulations == <<131000, 3400000, 5000000, 37400000>>
SampleContinents == <<Asia, Europe, Atlantis>>

\* the k-th record of a dataset: its name is its place in the dataset
SampleCity(k, cont, pop) ==
    [name |-> <<"C", DigitChars[k + 1]>>, country |-> <<"X">>,
     continent |-> SampleContinents[cont], flag |-> <<"F">>, lat |-> k, lon |-> -k,
     population |-> SamplePopulations[pop], language |-> <<"L">>,
     currency |-> <<"M">>, timezone |-> <<"Z">>, description |-> <<"D">>,
     best_known_for |-> <<"B">>, top_attractions |-> << <<"T">> >>]

Datasets ==
    UNION {{[k \in 1..n |-> SampleCity(k, conts[k], pops[k])] :
               conts \in [1..n -> 1..Len(SampleContinents)],
               pops \in [1..n -> 1..Len(SamplePopulations)]} : n \in 0..MaxCities}

InitFigure ==
    Call("build_figure", [view_mode : {"globe", "flat"},
                          continent : Range(CONTINENT_FILTER_OPTIONS),
                          data : Datasets])
ApplyFigure ==
    Apply("build_figure",
          build_figure_on(arg.view_mode, arg.continent, arg.data, CONTINENT_COLORS))
SpecFigure == InitFigure /\ [][ApplyFigure]_vars

\* build_attraction_chart

AttractionLengths == {3, LabelCap, LabelCap + 1}

\* the i-th attraction, of the given length: its first character is its place
Attraction(i, len) == <<DigitChars[i + 1]>> \o Repeat("x", len - 1)

ChartCity(cont, lens) ==
    [name |-> <<"C">>, continent |-> cont,
     top_attractions |-> [i \in 1..Len(lens) |-> Attraction(i, lens[i])]]

ChartCities ==
    {ChartCity(cont, lens) :
        cont \in {Asia, Atlantis},
        lens \in UNION {[1..k -> AttractionLengths] : k \in 1..MaxAttractions}}

InitChart == Call("build_attraction_chart", [city : ChartCities])
ApplyChart == Apply("build_attraction_chart", build_attraction_chart(arg.city))
SpecChart == InitChart /\ [][ApplyChart]_vars

\* city_to_csv

CsvTexts ==
    { <<>>, <<"R","i","o">>, <<"a", Comma, "b">>, <<Quote, "a", Quote>>, <<"a", LF, "b">>,
      <<"a", CR, LF>>, <<Comma, Quote>>, <<" ", "a", " ">> }

CsvCity(t1, t2, pop, lat) ==
    [name |-> t1, country |-> t2, continent |-> Asia, flag |-> <<"F">>,
     lat |-> lat, lon |-> 1397, population |-> pop, language |-> t1,
     currency |-> <<"Y","e","n">>, timezone |-> t2, description |-> <<"D">>,
     best_known_for |-> t2]

\* a dict with one more key
With(city, key, value) ==
    [k \in DOMAIN city \cup {key} |-> IF k = key THEN value ELSE city[k]]

CsvCities ==
    UNION {
      LET base == CsvCity(t1, t2, pop, lat)
          lists == {<<t1>>, <<t2, t1>>}
          a == {With(base, "top_attractions", l) : l \in lists}
          b == a \cup {With(c, "founded", t2) : c \in a}
      IN b \cup {With(c, "fun_facts", l) : c \in b, l \in lists \cup {<<>>}}
      : t1 \in CsvTexts, t2 \in CsvTexts, pop \in {0, 37400000}, lat \in {-125, 357} }

InitCsv == Call("city_to_csv", [city : CsvCities])
ApplyCsv == Apply("city_to_csv", city_to_csv(arg.city))
SpecCsv == InitCsv /\ [][ApplyCsv]_vars

---------------------------------------------------------------------------
(* Claims about the helper functions *)

Applied(name) == fn = name /\ res.type = "done"

\* the traces of a figure as the cities their payloads decode to
LayerCities(trace) == [i \in 1..Len(trace.customdata) |-> json_loads(trace.customdata[i]).val]

\* the places (trace, point) of a figure that show city c
PlacesOf(fig, c) ==
    UNION {{<<t, i>> : i \in {j \in 1..Len(fig.data[t].customdata) :
                                 LayerCities(fig.data[t])[j] = c}} :
              t \in 1..Len(fig.data)}

\* C5: with a filter other than All every city of the figure's layers has the
\* filter's continent; with All every city of the dataset is in exactly one layer
\* (also a city whose continent the style table lacks) and the layers hold nothing
\* else; a filter that selects no city gives a figure without layers.
C5_FilterProperty ==
    Applied("build_figure") =>
        LET fig == res.val
            data == arg.data
            selected == {k \in 1..Len(data) :
                            arg.continent = All \/ data[k].continent = arg.continent}
        IN /\ \A t \in 1..Len(fig.data) : \A i \in 1..Len(fig.data[t].customdata) :
                 /\ arg.continent # All =>
                        LayerCities(fig.data[t])[i].continent = arg.continent
                 /\ \E k \in 1..Len(data) : LayerCities(fig.data[t])[i] = data[k]
           /\ arg.continent = All =>
                 \A k \in 1..Len(data) : Cardinality(PlacesOf(fig, data[k])) = 1
           /\ selected = {} => fig.data = <<>>

\* C6: within a layer a city with the smaller population never has the larger
\* marker, and every marker size lies within [MinSize, MaxSize].
C6_MarkerSizes ==
    Applied("build_figure") =>
        \A t \in 1..Len(res.val.data) :
            LET trace == res.val.data[t]
                cities == LayerCities(trace)
            IN /\ Len(trace.size) = Len(cities)
               /\ \A i \in 1..Len(cities) :
                     /\ MinSize * SizeDen <= trace.size[i]
                     /\ trace.size[i] <= MaxSize * SizeDen
               /\ \A i, j \in 1..Len(cities) :
                     cities[i].population < cities[j].population =>
                         trace.size[i] <= trace.size[j]

\* C6 witness: a layer shows two cities of different population, the smaller one with
\* the strictly smaller marker, neither at a bound.
C6_Witness ==
    /\ Applied("build_figure")
    /\ \E t \in 1..Len(res.val.data) : \E i, j \in 1..Len(res.val.data[t].size) :
          /\ LayerCities(res.val.data[t])[i].population
                < LayerCities(res.val.data[t])[j].population
          /\ MinSize * SizeDen < res.val.data[t].size[i]
          /\ res.val.data[t].size[i] < res.val.data[t].size[j]
          /\ res.val.data[t].size[j] < MaxSize * SizeDen

\* the number of filled glyphs of a bar
FilledCount(bar) == Cardinality({i \in 1..Len(bar) : bar[i] = FilledGlyph})

\* what the claim says of the bar pop_bar(n, w) returns
PopBarOk(bar, n, w) ==
    LET f == FilledCount(bar)
        capped == Min2(n, PopCeiling)       \* min(1, n / 22_000_000), times 22_000_000
    IN /\ Len(bar) = w
       /\ \A i \in 1..Len(bar) : bar[i] \in {FilledGlyph, EmptyGlyph}
       /\ f >= 1
       /\ \A i \in 1..Len(bar) : (bar[i] = FilledGlyph) = (i <= f)
       \* f is w * min(1, n / 22_000_000) to the nearest integer, and one at least
       /\ \/ f * PopCeiling - w * capped \in (0 - PopCeiling \div 2)..(PopCeiling \div 2)
          \/ f = 1 /\ 2 * w * capped < PopCeiling
       /\ n >= PopCeiling => f = w

\* C7, as claimed: for every population and every width w the bar has length w,
\* holds only the two glyphs, the filled ones first and one at least, their number
\* proportional to min(1, n / 22_000_000).
C7_PopBarAnyWidth == Applied("pop_bar") => PopBarOk(res.val, arg.n, arg.width)

\* C7, amended: the same for every width w >= 1.
C7_PopBarPositiveWidth ==
    (Applied("pop_bar") /\ arg.width >= 1) => PopBarOk(res.val, arg.n, arg.width)

\* C7 witness: a bar of the default width that is neither empty nor full.
C7_Witness ==
    /\ Applied("pop_bar")
    /\ arg.width = DefaultBarWidth
    /\ FilledCount(res.val) \in 2..(DefaultBarWidth - 1)

\* exactly 6 hexadecimal digits, after one optional leading '#'
ValidHex(s) ==
    LET h == IF s # <<>> /\ s[1] = "#" THEN Tail(s) ELSE s
    IN Len(h) = 6 /\ \A i \in 1..6 : IsHexDigit(h[i])

\* the value of the k-th digit pair of a valid colour
PairValue(s, k) ==
    LET h == IF s[1] = "#" THEN Tail(s) ELSE s
    IN 16 * HexVal(h[2 * k - 1]) + HexVal(h[2 * k])

\* C8: hex_rgba fails whenever its input is not exactly 6 hexadecimal digits after
\* one optional leading '#', and returns 'rgba(r,g,b,opacity)' for a valid input.
C8_HexRgba ==
    Applied("hex_rgba") =>
        IF ValidHex(arg.hex)
        THEN /\ res.val.ok
             /\ res.val.val = RgbaText(PairValue(arg.hex, 1), PairValue(arg.hex, 2),
                                       PairValue(arg.hex, 3), arg.opacity)
        ELSE ~res.val.ok

\* C9: for k attractions the chart has min(k, 5) bars: the labels, the scores (the
\* prefix of 95, 88, 80, 73, 65) and the bar colours all have the length min(k, 5),
\* and the i-th label is the i-th attraction cut to 22 characters.
C9_AttractionChart ==
    Applied("build_attraction_chart") =>
        LET attrs == arg.city.top_attractions
            bars == Min2(Len(attrs), 5)
        IN /\ res.val.ok
           /\ Len(res.val.val.x) = bars
           /\ Len(res.val.val.y) = bars
           /\ Len(res.val.val.marker_color) = bars
           /\ \A i \in 1..bars :
                 /\ res.val.val.y[i] = Scores[i]
                 /\ Take(res.val.val.x[i], LabelCap) = Take(attrs[i], LabelCap)
                 /\ Len(attrs[i]) <= LabelCap => res.val.val.x[i] = attrs[i]

\* |a - b|
Dist(a, b) == IF a < b THEN b - a ELSE a - b

\* C11: fmt_pop(n) is, for n >= 1,000,000, n / 1,000,000 rounded to one decimal and
\* 'M'; for 1,000 <= n < 1,000,000, n / 1,000 rounded to no decimal and 'K';
\* otherwise the decimal digits of n.  999 gives '999', 1500 '2K', 1,000,000 '1.0M'
\* and 22,340,000 '22.3M'.  Rounded: no value with as many decimals is nearer.
C11_FmtPop ==
    Applied("fmt_pop") =>
        LET n == arg.n
            s == res.val
        IN /\ n >= 1000000 =>
                 \E t \in (n \div 100000)..(n \div 100000 + 1) :
                    /\ 2 * Dist(n, t * 100000) <= 100000
                    /\ s = NatStr(t \div 10) \o <<".">> \o <<DigitChars[(t % 10) + 1]>>
                              \o <<"M">>
           /\ (n >= 1000 /\ n < 1000000) =>
                 \E t \in (n \div 1000)..(n \div 1000 + 1) :
                    /\ 2 * Dist(n, t * 1000) <= 1000
                    /\ s = NatStr(t) \o <<"K">>
           /\ n < 1000 => s = NatStr(n)
           /\ n = 999 => s = <<"9", "9", "9">>
           /\ n = 1500 => s = <<"2", "K">>
           /\ n = 1000000 => s = <<"1", ".", "0", "M">>
           /\ n = 22340000 => s = <<"2", "2", ".", "3", "M">>

\* C11 witness: 22,340,000 has been formatted, as '22.3M'.
C11_Witness ==
    /\ Applied("fmt_pop")
    /\ arg.n = 22340000
    /\ res.val = <<"2", "2", ".", "3", "M">>

---------------------------------------------------------------------------
(* Reading CSV back: csv.reader with its default dialect, one character at *)
(* a time.  rows are the records read, fields and cur the record and the   *)
(* field being read.                                                       *)

ReaderStart == [mode |-> "START_RECORD", cur |-> <<>>, fields |-> <<>>, rows |-> <<>>]

SaveField(st, mode) == [st EXCEPT !.mode = mode, !.fields = Append(@, st.cur), !.cur = <<>>]
EndRecord(st) == [st EXCEPT !.mode = "START_RECORD", !.rows = Append(@, st.fields),
                            !.fields = <<>>, !.cur = <<>>]
AddChar(st, c, mode) == [st EXCEPT !.mode = mode, !.cur = Append(@, c)]

ReaderStep(st, c) ==
    CASE st.mode = "ERROR" -> st
      [] st.mode \in {"START_RECORD", "START_FIELD"} ->
            IF c = LF THEN (IF st.mode = "START_RECORD" THEN EndRecord(st)
                            ELSE EndRecord(SaveField(st, "START_RECORD")))
            ELSE IF c = CR THEN (IF st.mode = "START_RECORD"
                                 THEN [st EXCEPT !.mode = "EAT_CRNL"]
                                 ELSE SaveField(st, "EAT_CRNL"))
            ELSE IF c = Quote THEN [st EXCEPT !.mode = "IN_QUOTED_FIELD"]
            ELSE IF c = Comma THEN SaveField(st, "START_FIELD")
            ELSE AddChar(st, c, "IN_FIELD")
      [] st.mode = "IN_FIELD" ->
            IF c = LF THEN EndRecord(SaveField(st, "START_RECORD"))
            ELSE IF c = CR THEN SaveField(st, "EAT_CRNL")
            ELSE IF c = Comma THEN SaveField(st, "START_FIELD")
            ELSE AddChar(st, c, "IN_FIELD")
      [] st.mode = "IN_QUOTED_FIELD" ->
            IF c = Quote THEN [st EXCEPT !.mode = "QUOTE_IN_QUOTED_FIELD"]
            ELSE AddChar(st, c, "IN_QUOTED_FIELD")
      [] st.mode = "QUOTE_IN_QUOTED_FIELD" ->
            IF c = Quote THEN AddChar(st, c, "IN_QUOTED_FIELD")
            ELSE IF c = Comma THEN SaveField(st, "START_FIELD")
            ELSE IF c = LF THEN EndRecord(SaveField(st, "START_RECORD"))
            ELSE IF c = CR THEN SaveField(st, "EAT_CRNL")
            ELSE AddChar(st, c, "IN_FIELD")
      [] st.mode = "EAT_CRNL" ->
            IF c = LF THEN EndRecord(st)
            ELSE IF c = CR THEN st
            ELSE [st EXCEPT !.mode = "ERROR"]

\* the reader's state after the characters text[lo..hi], read in order
RECURSIVE ReaderRun(_, _, _, _)
ReaderRun(st, text, lo, hi) ==
    IF st.mode = "ERROR" \/ lo > hi THEN st
    ELSE IF lo = hi THEN ReaderStep(st, text[lo])
    ELSE LET mid == (lo + hi) \div 2
             half == ReaderRun(st, text, lo, mid)
         IN ReaderRun(half, text, mid + 1, hi)

\* list(csv.reader(io.StringIO(text))): the rows, or csv.Error
csv_read(text) ==
    LET st == ReaderRun(ReaderStart, text, 1, Len(text))
    IN CASE st.mode = "ERROR" -> Raise("csv.Error")
         [] st.mode = "START_RECORD" -> Ok(st.rows)
         [] st.mode = "EAT_CRNL" -> Ok(EndRecord(st).rows)
         [] OTHER -> Ok(EndRecord(SaveField(st, "START_RECORD")).rows)

\* the rows the claim expects for a record: the documented fields in their order
ExpectedRows(city) ==
    << <<<<"F","i","e","l","d">>, <<"V","a","l","u","e">>>>,
       <<<<"C","i","t","y">>, city.name>>,
       <<<<"C","o","u","n","t","r","y">>, city.country>>,
       <<<<"C","o","n","t","i","n","e","n","t">>, city.continent>>,
       <<<<"P","o","p","u","l","a","t","i","o","n">>, IntStr(city.population)>>,
       <<<<"L","a","t","i","t","u","d","e">>, FloatStr(city.lat)>>,
       <<<<"L","o","n","g","i","t","u","d","e">>, FloatStr(city.lon)>>,
       <<<<"L","a","n","g","u","a","g","e">>, city.language>>,
       <<<<"C","u","r","r","e","n","c","y">>, city.currency>>,
       <<<<"T","i","m","e","z","o","n","e">>, city.timezone>>,
       <<<<"F","o","u","n","d","e","d">>, IF "founded" \in DOMAIN city THEN city.founded ELSE <<"U","n","k","n","o","w","n">>>>,
       <<<<"F","a","m","o","u","s"," ","F","o","r">>, city.best_known_for>>,
       <<<<"T","o","p"," ","A","t","t","r","a","c","t","i","o","n","s">>, Join(<<" ", "|", " ">>, city.top_attractions)>>,
       <<<<"F","u","n"," ","F","a","c","t","s">>, IF "fun_facts" \in DOMAIN city
                       THEN Join(<<" ", "|", " ">>, city.fun_facts) ELSE <<>>>> >>

\* C10: read back as CSV, the output of city_to_csv is the header row (Field, Value)
\* and one (field, value) row per documented field in the documented order, each
\* value the text of the record's value, also with commas, quotes or line breaks in
\* it; Founded is Unknown without a founding value; the lists are joined with ' | '.
C10_CsvRoundTrip ==
    Applied("city_to_csv") =>
        /\ csv_read(res.val).ok
        /\ csv_read(res.val).val = ExpectedRows(arg.city)

\* C10 witness: a record without a founding value, whose name holds a comma and a
\* quote, has been written.
C10_Witness ==
    /\ Applied("city_to_csv")
    /\ ~("founded" \in DOMAIN arg.city)
    /\ arg.city.name = <<Comma, Quote>>
    /\ arg.city.country = <<"a", LF, "b">>
    /\ Len(arg.city.top_attractions) = 2

====
